---- MODULE Spec2Model ----
(***************************************************************************)
(* Model of the piano-trainer UI glue:                                     *)
(*   - KVProvider (src/src/components/KVProvider/KVProvider.tsx): loads    *)
(*     three preferences from a persisted key-value store, holds them in   *)
(*     React state, writes them back from effects, gates its children.     *)
(*   - Keyboard (src/src/components/Keyboard/Keyboard.tsx): opens the MIDI *)
(*     connection, subscribes to midi_message, tracks active notes, and    *)
(*     hands play/stop handlers to the Piano widget.                       *)
(* React state is modelled as a committed value plus a queue of pending    *)
(* updates; a render commits the queue and runs the effects whose          *)
(* dependencies changed.                                                   *)
(***************************************************************************)
EXTENDS Integers, Sequences, FiniteSets

(***************************************************************************)
(* Bounds                                                                  *)
(***************************************************************************)
MaxSessions == 2
MaxOps == 1
MaxMounts == 2
MaxPending == 2
MaxCounter == 2

(***************************************************************************)
(* Values as the store holds them: a JSON type tag and a payload.          *)
(***************************************************************************)
Strings == {"", "acoustic_grand_piano", "marimba"}
Null == <<"null", "null">>
StrV(s) == <<"string", s>>
BoolV(b) == <<"boolean", IF b THEN "true" ELSE "false">>
StrValues == {StrV(s) : s \in Strings}
BoolValues == {BoolV(b) : b \in BOOLEAN}
Values == StrValues \cup BoolValues

\* JS truthiness of a stored value: null, false and "" are falsy.
Truthy(v) ==
  CASE v[1] = "null" -> FALSE
    [] v[1] = "boolean" -> v[2] = "true"
    [] v[1] = "string" -> v[2] # ""

\* String(value)
JsString(v) == v[2]

\* Boolean(value)
JsBoolean(v) == Truthy(v)

Keys == {"piano-sound", "show-keyboard", "mute-sound"}
AVAILABLE_SETTINGS == <<"piano-sound", "show-keyboard", "mute-sound">>

\* The values of a key's declared type.
TypedValues(k) == IF k = "piano-sound" THEN StrValues ELSE BoolValues

DefaultPianoSound == "acoustic_grand_piano"
DefaultShowKeyboard == TRUE
DefaultMuteSound == FALSE

EmptyStore == [k \in Keys |-> Null]

VARIABLES
  disk,            \* .settings.dat as persisted: key -> value, Null when absent
  cache,           \* the store as held by the backend between load and save
  isLoading, pianoSound, showKeyboard, muteSound,   \* committed React state
  queue,           \* pending state updates of KVProvider, applied at the next render
  loadPc,          \* position of the load effect's promise chain
  loadIdx,         \* index in AVAILABLE_SETTINGS of the store.get in flight
  loadResult,      \* "pending", "ok", "load_failed", "get_failed"
  childrenRendered,\* whether the last render rendered {children}
  calls,           \* external calls issued by the last step
  disk0,           \* history: the persisted store when the session started
  prevWritten,     \* history: last value store.set wrote per key in the previous session
  written,         \* history: last value store.set wrote per key in this session
  sessions, ops,
  kbMounted,       \* whether a Keyboard is mounted
  activeNotes,     \* Keyboard state: object from note key to boolean
  anQueue,         \* pending functional updates of activeNotes, oldest first
  isListening,     \* Keyboard state
  listeningQueued, \* whether setIsListening(true) is pending
  listenPc,        \* the mount's listen() promise: "none", "pending", "registered", "failed"
  opened,          \* open_midi_connection invocations of this mount
  subscribed,      \* listen('midi_message') calls of this mount
  mounts,          \* Keyboard mounts so far in this session
  connections,     \* open_midi_connection invocations so far in this session
  listeners,       \* midi_message listeners registered in this session
  stalePending,    \* listen() promises of unmounted Keyboards still in flight
  nextTargetNote,  \* TrainerContext value
  noteCounter,     \* TrainerContext counter, as the updates queued on it leave it
  kbTarget,        \* nextTargetNote as read by the Keyboard's last render
  lastCmd,         \* history: per note, the last 144/128 command delivered to this mount
  delivered,       \* history: the last message delivered to this mount's listener
  failures,        \* history: listen() promises rejected in this session
  directSaved,     \* history: saveSetting was called directly after load in this session
  input            \* the call a caller made in the last step, <<>> if none

kvVars == <<disk, cache, isLoading, pianoSound, showKeyboard, muteSound, queue,
            loadPc, loadIdx, loadResult, childrenRendered, disk0,
            prevWritten, written, sessions, ops, directSaved>>

kbVars == <<kbMounted, activeNotes, anQueue, isListening, listeningQueued, listenPc,
            opened, subscribed, mounts, connections, listeners, stalePending,
            kbTarget, lastCmd, delivered, failures>>

trainerVars == <<nextTargetNote, noteCounter>>

vars == <<kvVars, kbVars, trainerVars, calls, input>>

NoUpdate == <<>>
EmptyQueue == [isLoading |-> NoUpdate, pianoSound |-> NoUpdate,
               showKeyboard |-> NoUpdate, muteSound |-> NoUpdate]

\* The store as one value, threaded through the calls of a step.
StoreState == [cache |-> cache, disk |-> disk, log |-> <<>>, written |-> written]

StoreSet(s, key, value) ==
  [s EXCEPT !.cache = [s.cache EXCEPT ![key] = value],
            !.log = Append(s.log, <<"set", key, value>>),
            !.written = [s.written EXCEPT ![key] = value]]

StoreSave(s) ==
  [s EXCEPT !.disk = s.cache, !.log = Append(s.log, <<"save">>)]

\* saveSetting without its isLoading check.
saveSettingNoGuard(loading, key, value, s) ==
  StoreSave(StoreSet(s, key, value))

\* saveSetting without the flush of the store.
saveSettingNoFlush(loading, key, value, s) ==
  IF loading THEN s
  ELSE StoreSet(s, key, value)

\* saveSetting as closed over `loading`, the isLoading of the render that created it.
saveSetting(loading, key, value, s) ==
  IF loading THEN s
  ELSE StoreSave(StoreSet(s, key, value))

\* The write-back effects without their dependency lists: all three run at every render.
WriteBackEffectsNoDeps(loading, ps, sk, ms, runPs, runSk, runMs, s) ==
  saveSetting(loading, "mute-sound", BoolV(ms),
    saveSetting(loading, "show-keyboard", BoolV(sk),
      saveSetting(loading, "piano-sound", StrV(ps), s)))

\* The three write-back effects, run in declaration order when a dependency changed.
WriteBackEffects(loading, ps, sk, ms, runPs, runSk, runMs, s) ==
  LET s1 == IF runPs THEN saveSetting(loading, "piano-sound", StrV(ps), s) ELSE s
      s2 == IF runSk THEN saveSetting(loading, "show-keyboard", BoolV(sk), s1) ELSE s1
      s3 == IF runMs THEN saveSetting(loading, "mute-sound", BoolV(ms), s2) ELSE s2
  IN s3

\* The state updates loadSettingIntoState queues for `key` given the value read.
loadSettingIntoState(key, value, q) ==
  IF ~Truthy(value) THEN q
  ELSE CASE key = "piano-sound" -> [q EXCEPT !.pianoSound = <<JsString(value)>>]
         [] key = "show-keyboard" -> [q EXCEPT !.showKeyboard = <<JsBoolean(value)>>]
         [] key = "mute-sound" -> [q EXCEPT !.muteSound = <<JsBoolean(value)>>]
         [] OTHER -> q

Pick(update, old) == IF update = NoUpdate THEN old ELSE update[1]

\* {children}, whatever isLoading is.
RenderChildrenAlways(loading) == TRUE

\* {!isLoading && children}
RenderChildren(loading) == ~loading

\* KVProvider's first render and the effects of its mount, over the persisted store d:
\* the write-back effects run with the initial isLoading, the load effect calls store.load().
MountStore(d) ==
  WriteBackEffects(TRUE, DefaultPianoSound, DefaultShowKeyboard, DefaultMuteSound,
                   TRUE, TRUE, TRUE,
                   [cache |-> EmptyStore, disk |-> d, log |-> <<>>, written |-> EmptyStore])

\* The state of a freshly mounted KVProvider: the useState defaults, nothing queued,
\* store.load() in flight, children not rendered.
Mounted(d) ==
  [disk0 |-> d,
   disk |-> MountStore(d).disk,
   cache |-> MountStore(d).cache,
   written |-> MountStore(d).written,
   calls |-> MountStore(d).log \o << <<"load">> >>,
   isLoading |-> TRUE,
   pianoSound |-> DefaultPianoSound,
   showKeyboard |-> DefaultShowKeyboard,
   muteSound |-> DefaultMuteSound,
   queue |-> EmptyQueue,
   loadPc |-> "load",
   loadIdx |-> 1,
   loadResult |-> "pending",
   childrenRendered |-> RenderChildren(TRUE)]

\* store.load() resolves: the backend now holds the persisted entries; the loop
\* starts its first store.get.
LoadResolve ==
  /\ UNCHANGED <<kbVars, trainerVars, directSaved>>
  /\ input' = <<>>
  /\ loadPc = "load"
  /\ cache' = disk
  /\ loadPc' = "get"
  /\ loadIdx' = 1
  /\ calls' = << <<"get", AVAILABLE_SETTINGS[1]>> >>
  /\ UNCHANGED <<disk, isLoading, pianoSound, showKeyboard, muteSound, queue,
                 loadResult, childrenRendered, disk0, prevWritten, written,
                 sessions, ops>>

\* A chain without the .finally step.
FinallyOmitted(q) == q

\* .finally(() => setIsLoading(false))
Finally(q) == [q EXCEPT !.isLoading = <<FALSE>>]

\* store.load() rejects: .catch logs, .finally queues setIsLoading(false).
LoadReject ==
  /\ UNCHANGED <<kbVars, trainerVars, directSaved>>
  /\ input' = <<>>
  /\ loadPc = "load"
  /\ loadPc' = "done"
  /\ loadResult' = "load_failed"
  /\ queue' = Finally(queue)
  /\ calls' = << <<"console.error">> >>
  /\ UNCHANGED <<disk, cache, isLoading, pianoSound, showKeyboard, muteSound,
                 loadIdx, childrenRendered, disk0, prevWritten, written,
                 sessions, ops>>

\* The store.get of the current key resolves inside loadSettingIntoState; the loop
\* moves to the next key or, after the last one, the chain reaches .finally.
GetResolve ==
  /\ UNCHANGED <<kbVars, trainerVars, directSaved>>
  /\ input' = <<>>
  /\ loadPc = "get"
  /\ LET key == AVAILABLE_SETTINGS[loadIdx]
         q == loadSettingIntoState(key, cache[key], queue)
     IN IF loadIdx < Len(AVAILABLE_SETTINGS)
        THEN /\ queue' = q
             /\ loadIdx' = loadIdx + 1
             /\ calls' = << <<"get", AVAILABLE_SETTINGS[loadIdx + 1]>> >>
             /\ UNCHANGED <<loadPc, loadResult>>
        ELSE /\ queue' = Finally(q)
             /\ loadPc' = "done"
             /\ loadResult' = "ok"
             /\ calls' = <<>>
             /\ UNCHANGED loadIdx
  /\ UNCHANGED <<disk, cache, isLoading, pianoSound, showKeyboard, muteSound,
                 childrenRendered, disk0, prevWritten, written, sessions, ops>>

\* A store.get rejects: the loop is abandoned, .catch logs, .finally runs.
GetReject ==
  /\ UNCHANGED <<kbVars, trainerVars, directSaved>>
  /\ input' = <<>>
  /\ loadPc = "get"
  /\ loadPc' = "done"
  /\ loadResult' = "get_failed"
  /\ queue' = Finally(queue)
  /\ calls' = << <<"console.error">> >>
  /\ UNCHANGED <<disk, cache, isLoading, pianoSound, showKeyboard, muteSound,
                 loadIdx, childrenRendered, disk0, prevWritten, written,
                 sessions, ops>>

\* A saveSetting that keeps its identity across renders.
SaveSettingNeverRecreated(loading, previous) == FALSE

\* useCallback(..., [store, isLoading]): saveSetting is a new function when the
\* isLoading of this render differs from the one of the previous render.
SaveSettingRecreated(loading, previous) == loading # previous

\* A re-render of KVProvider: the queued updates are committed, then every write-back
\* effect whose dependency list [<preference>, saveSetting] changed runs; saveSetting
\* is a new function exactly when isLoading changed.
Render ==
  /\ UNCHANGED <<kbVars, trainerVars, directSaved>>
  /\ input' = <<>>
  /\ queue # EmptyQueue
  /\ LET il == Pick(queue.isLoading, isLoading)
         ps == Pick(queue.pianoSound, pianoSound)
         sk == Pick(queue.showKeyboard, showKeyboard)
         ms == Pick(queue.muteSound, muteSound)
         s == WriteBackEffects(il, ps, sk, ms,
                               ps # pianoSound \/ SaveSettingRecreated(il, isLoading),
                               sk # showKeyboard \/ SaveSettingRecreated(il, isLoading),
                               ms # muteSound \/ SaveSettingRecreated(il, isLoading),
                               StoreState)
     IN /\ isLoading' = il
        /\ pianoSound' = ps
        /\ showKeyboard' = sk
        /\ muteSound' = ms
        /\ cache' = s.cache
        /\ disk' = s.disk
        /\ written' = s.written
        /\ calls' = s.log
        /\ childrenRendered' = RenderChildren(il)
  /\ queue' = EmptyQueue
  /\ UNCHANGED <<loadPc, loadIdx, loadResult, disk0, prevWritten, sessions, ops>>

\* A descendant calls a setter taken from the context.
SetPianoSound ==
  /\ UNCHANGED <<kbVars, trainerVars, directSaved>>
  /\ input' = <<>>
  /\ childrenRendered
  /\ ops < MaxOps
  /\ \E v \in Strings : queue' = [queue EXCEPT !.pianoSound = <<v>>]
  /\ ops' = ops + 1
  /\ calls' = <<>>
  /\ UNCHANGED <<disk, cache, isLoading, pianoSound, showKeyboard, muteSound,
                 loadPc, loadIdx, loadResult, childrenRendered, disk0,
                 prevWritten, written, sessions>>

SetShowKeyboard ==
  /\ UNCHANGED <<kbVars, trainerVars, directSaved>>
  /\ input' = <<>>
  /\ childrenRendered
  /\ ops < MaxOps
  /\ \E v \in BOOLEAN : queue' = [queue EXCEPT !.showKeyboard = <<v>>]
  /\ ops' = ops + 1
  /\ calls' = <<>>
  /\ UNCHANGED <<disk, cache, isLoading, pianoSound, showKeyboard, muteSound,
                 loadPc, loadIdx, loadResult, childrenRendered, disk0,
                 prevWritten, written, sessions>>

SetMuteSound ==
  /\ UNCHANGED <<kbVars, trainerVars, directSaved>>
  /\ input' = <<>>
  /\ childrenRendered
  /\ ops < MaxOps
  /\ \E v \in BOOLEAN : queue' = [queue EXCEPT !.muteSound = <<v>>]
  /\ ops' = ops + 1
  /\ calls' = <<>>
  /\ UNCHANGED <<disk, cache, isLoading, pianoSound, showKeyboard, muteSound,
                 loadPc, loadIdx, loadResult, childrenRendered, disk0,
                 prevWritten, written, sessions>>

\* A holder of the context value calls saveSetting(key, value); the function it holds
\* is the one created by the last render.
DirectSave ==
  /\ UNCHANGED <<kbVars, trainerVars>>
  /\ ops < MaxOps
  /\ \E k \in Keys : \E v \in TypedValues(k) :
       LET s == saveSetting(isLoading, k, v, StoreState)
       IN /\ cache' = s.cache
          /\ disk' = s.disk
          /\ written' = s.written
          /\ calls' = s.log
          /\ input' = <<"saveSetting", k, v>>
  /\ directSaved' = (directSaved \/ ~isLoading)
  /\ ops' = ops + 1
  /\ UNCHANGED <<isLoading, pianoSound, showKeyboard, muteSound, queue, loadPc,
                 loadIdx, loadResult, childrenRendered, disk0, prevWritten,
                 sessions>>

(***************************************************************************)
(* Keyboard                                                                *)
(***************************************************************************)
Notes == {60, 61}
NoteOn == 144
NoteOff == 128
Commands == {NoteOn, NoteOff, 176}

\* The property key a computed member [note] gets, and Number(key) back.
JsKey(n) == CASE n = 60 -> "60" [] n = 61 -> "61"
JsNumber(s) == CASE s = "60" -> 60 [] s = "61" -> 61

NoNotes == [k \in {} |-> TRUE]

\* The target note the trainer starts a session with.
InitialTarget == CHOOSE n \in Notes : \A m \in Notes : n <= m

\* ({ ...activeNotes, [note]: value }) over the activeNotes the listener closed over
\* when it was registered, the empty object of the first render.
SpreadStale(an, key, value) == [k \in {key} |-> value]

\* (an) => ({ ...an, [note]: value })
Spread(an, key, value) ==
  [k \in DOMAIN an \cup {key} |-> IF k = key THEN value ELSE an[k]]

\* The activeNotes prop without the filter: every key of the object.
ActiveNotesPropNoFilter(an) == {JsNumber(s) : s \in DOMAIN an}

\* The activeNotes prop given to <Piano>:
\* Object.keys(activeNotes).filter((v) => activeNotes[v]).map((s) => Number(s))
ActiveNotesProp(an) == {JsNumber(s) : s \in {v \in DOMAIN an : an[v]}}

\* React applies the queued updater functions in order to the committed state.
RECURSIVE ApplyUpdates(_, _)
ApplyUpdates(an, q) ==
  IF q = <<>> THEN an
  ELSE ApplyUpdates(Spread(an, Head(q)[1], Head(q)[2]), Tail(q))

\* A listener that takes every command other than 144 for a note-off.
ListenerElseOff(command, note, q) ==
  IF command = 144 THEN Append(q, <<JsKey(note), TRUE>>)
  ELSE Append(q, <<JsKey(note), FALSE>>)

\* The midi_message listener: the updates it queues for one event.
Listener(command, note, q) ==
  LET q1 == IF command = 144 THEN Append(q, <<JsKey(note), TRUE>>) ELSE q
      q2 == IF command = 128 THEN Append(q1, <<JsKey(note), FALSE>>) ELSE q1
  IN q2

\* What onLoadCallback touches, as one value threaded through a step.
KbState == [opened |-> opened, subscribed |-> subscribed, connections |-> connections,
            listenPc |-> listenPc, listeningQueued |-> listeningQueued, log |-> <<>>]

\* onLoadCallback without its isListening check.
onLoadCallbackNoGuard(listening, k) ==
  [k EXCEPT !.opened = @ + 1,
            !.connections = @ + 1,
            !.subscribed = @ + 1,
            !.listenPc = "pending",
            !.listeningQueued = TRUE,
            !.log = @ \o << <<"invoke", "open_midi_connection">>,
                            <<"listen", "midi_message">>,
                            <<"console.log">> >>]

\* onLoadCallback as closed over `listening`, the isListening of the render that created it.
onLoadCallback(listening, k) ==
  IF listening THEN k
  ELSE [k EXCEPT !.opened = @ + 1,
                 !.connections = @ + 1,
                 !.subscribed = @ + 1,
                 !.listenPc = "pending",
                 !.listeningQueued = TRUE,
                 !.log = @ \o << <<"invoke", "open_midi_connection">>,
                                 <<"listen", "midi_message">>,
                                 <<"console.log">> >>]

\* The setup effect, dependencies [onLoadCallback, isListening]: it runs on mount and
\* whenever isListening changed.
SetupEffect(run, listening, k) == IF run THEN onLoadCallback(listening, k) ELSE k

\* A Keyboard mounts as a descendant of KVProvider: first render, then the setup effect.
KeyboardMount ==
  /\ childrenRendered
  /\ ~kbMounted
  /\ mounts < MaxMounts
  /\ kbMounted' = TRUE
  /\ mounts' = mounts + 1
  /\ activeNotes' = NoNotes
  /\ anQueue' = <<>>
  /\ isListening' = FALSE
  /\ kbTarget' = nextTargetNote
  /\ lastCmd' = [n \in Notes |-> 0]
  /\ delivered' = <<>>
  /\ LET k == SetupEffect(TRUE, FALSE,
                          [KbState EXCEPT !.opened = 0, !.subscribed = 0,
                                          !.listenPc = "none",
                                          !.listeningQueued = FALSE])
     IN /\ opened' = k.opened
        /\ subscribed' = k.subscribed
        /\ connections' = k.connections
        /\ listenPc' = k.listenPc
        /\ listeningQueued' = k.listeningQueued
        /\ calls' = k.log
  /\ input' = <<>>
  /\ UNCHANGED <<kvVars, trainerVars, listeners, stalePending, failures>>

\* A re-render of the Keyboard: queued updates are committed, the render reads the
\* context, the setup effect runs if its dependencies changed.
KbCommit ==
  /\ activeNotes' = ApplyUpdates(activeNotes, anQueue)
  /\ anQueue' = <<>>
  /\ isListening' = (isListening \/ listeningQueued)
  /\ kbTarget' = nextTargetNote'
  /\ LET k == SetupEffect(isListening' # isListening, isListening',
                          [KbState EXCEPT !.listeningQueued = FALSE])
     IN /\ opened' = k.opened
        /\ subscribed' = k.subscribed
        /\ connections' = k.connections
        /\ listenPc' = k.listenPc
        /\ listeningQueued' = k.listeningQueued
        /\ calls' = k.log
  /\ input' = <<>>
  /\ UNCHANGED <<kbMounted, mounts, listeners, stalePending, lastCmd, delivered,
                 failures>>

KeyboardRender ==
  /\ kbMounted
  /\ anQueue # <<>> \/ listeningQueued
  /\ UNCHANGED <<kvVars, trainerVars>>
  /\ KbCommit

\* listen() resolves: the listener is registered with the event system.
ListenResolve ==
  /\ kbMounted
  /\ listenPc = "pending"
  /\ listenPc' = "registered"
  /\ listeners' = listeners + 1
  /\ calls' = <<>>
  /\ input' = <<>>
  /\ UNCHANGED <<kvVars, trainerVars, kbMounted, activeNotes, anQueue, isListening,
                 listeningQueued, opened, subscribed, mounts, connections,
                 stalePending, kbTarget, lastCmd, delivered, failures>>

\* A rejection handler that subscribes again.
ListenRejectRetry ==
  /\ kbMounted
  /\ listenPc = "pending"
  /\ listenPc' = "pending"
  /\ subscribed' = subscribed + 1
  /\ failures' = failures + 1
  /\ calls' = << <<"console.error">>, <<"listen", "midi_message">> >>
  /\ input' = <<>>
  /\ UNCHANGED <<kvVars, trainerVars, kbMounted, activeNotes, anQueue, isListening,
                 listeningQueued, opened, mounts, connections, listeners,
                 stalePending, kbTarget, lastCmd, delivered>>

\* listen() rejects: .catch(console.error)
ListenReject ==
  /\ kbMounted
  /\ listenPc = "pending"
  /\ listenPc' = "failed"
  /\ failures' = failures + 1
  /\ calls' = << <<"console.error">> >>
  /\ input' = <<>>
  /\ UNCHANGED <<kvVars, trainerVars, kbMounted, activeNotes, anQueue, isListening,
                 listeningQueued, opened, subscribed, mounts, connections, listeners,
                 stalePending, kbTarget, lastCmd, delivered>>

\* The bridge emits midi_message; the mount's registered listener receives it.
MidiEvent ==
  /\ kbMounted
  /\ listenPc = "registered"
  /\ Len(anQueue) < MaxPending
  /\ \E command \in Commands, note \in Notes :
       /\ anQueue' = Listener(command, note, anQueue)
       /\ delivered' = <<command, note>>
       /\ lastCmd' = IF command \in {NoteOn, NoteOff}
                     THEN [lastCmd EXCEPT ![note] = command]
                     ELSE lastCmd
  /\ calls' = <<>>
  /\ input' = <<>>
  /\ UNCHANGED <<kvVars, trainerVars, kbMounted, activeNotes, isListening,
                 listeningQueued, listenPc, opened, subscribed, mounts, connections,
                 listeners, stalePending, kbTarget, failures>>

\* A play handler that counts every play.
playNoteAlwaysCounts(target, midiNumber) ==
  << <<"setNoteCounter">>, <<"playNote", midiNumber>> >>

\* A play handler that returns after counting a match, without forwarding.
playNoteReturnsOnMatch(target, midiNumber) ==
  IF midiNumber = target THEN << <<"setNoteCounter">> >>
  ELSE << <<"playNote", midiNumber>> >>

\* The playNote handler given to <Piano>, as closed over `target`, the nextTargetNote of
\* the render that created it: the calls it makes for midiNumber.
playNote(target, midiNumber) ==
  (IF midiNumber = target THEN << <<"setNoteCounter">> >> ELSE <<>>)
    \o << <<"playNote", midiNumber>> >>

\* The stopNote handler given to <Piano>.
stopNote(midiNumber) == << <<"stopNote", midiNumber>> >>

\* Number of setNoteCounter((nc) => nc + 1) calls in a call sequence.
RECURSIVE Increments(_)
Increments(log) ==
  IF log = <<>> THEN 0
  ELSE (IF Head(log) = <<"setNoteCounter">> THEN 1 ELSE 0) + Increments(Tail(log))

\* A handler that keeps the target note the trainer started with.
HandlerTargetInitial == InitialTarget

\* The handler the Piano holds is the one of the Keyboard's last render.
HandlerTarget == kbTarget

\* The Piano widget invokes its playNote prop.
PianoPlay ==
  /\ kbMounted
  /\ noteCounter < MaxCounter
  /\ \E midiNumber \in Notes :
       /\ calls' = playNote(HandlerTarget, midiNumber)
       /\ input' = <<"play", midiNumber>>
       /\ noteCounter' = noteCounter + Increments(calls')
  /\ UNCHANGED <<kvVars, kbVars, nextTargetNote>>

\* The Piano widget invokes its stopNote prop.
PianoStop ==
  /\ kbMounted
  /\ \E midiNumber \in Notes :
       /\ calls' = stopNote(midiNumber)
       /\ input' = <<"stop", midiNumber>>
  /\ UNCHANGED <<kvVars, kbVars, trainerVars>>

\* The trainer picks another target note; the context value changes, so the Keyboard,
\* a consumer of TrainerContext, re-renders in the same commit.
TrainerSetTarget ==
  /\ \E t \in Notes : t # nextTargetNote /\ nextTargetNote' = t
  /\ UNCHANGED <<kvVars, noteCounter>>
  /\ IF kbMounted THEN KbCommit
     ELSE /\ calls' = <<>>
          /\ input' = <<>>
          /\ UNCHANGED kbVars

\* An unmount whose effect cleanup cancels the subscription.
KeyboardUnmountUnlisten ==
  /\ kbMounted
  /\ kbMounted' = FALSE
  /\ stalePending' = stalePending
  /\ listeners' = listeners - (IF listenPc = "registered" THEN 1 ELSE 0)
  /\ listenPc' = "none"
  /\ activeNotes' = NoNotes
  /\ anQueue' = <<>>
  /\ isListening' = FALSE
  /\ listeningQueued' = FALSE
  /\ opened' = 0
  /\ subscribed' = 0
  /\ lastCmd' = [n \in Notes |-> 0]
  /\ delivered' = <<>>
  /\ calls' = << <<"unlisten">> >>
  /\ input' = <<>>
  /\ UNCHANGED <<kvVars, trainerVars, mounts, connections, kbTarget, failures>>

\* The Keyboard unmounts. No effect has a cleanup: a listen() in flight stays in flight,
\* a registered listener stays registered.
KeyboardUnmount ==
  /\ kbMounted
  /\ kbMounted' = FALSE
  /\ stalePending' = stalePending + (IF listenPc = "pending" THEN 1 ELSE 0)
  /\ listenPc' = "none"
  /\ activeNotes' = NoNotes
  /\ anQueue' = <<>>
  /\ isListening' = FALSE
  /\ listeningQueued' = FALSE
  /\ opened' = 0
  /\ subscribed' = 0
  /\ lastCmd' = [n \in Notes |-> 0]
  /\ delivered' = <<>>
  /\ calls' = <<>>
  /\ input' = <<>>
  /\ UNCHANGED <<kvVars, trainerVars, mounts, connections, listeners, kbTarget,
                 failures>>

\* The listen() of an unmounted Keyboard settles.
StaleListenSettle ==
  /\ stalePending > 0
  /\ stalePending' = stalePending - 1
  /\ \/ /\ listeners' = listeners + 1
        /\ failures' = failures
        /\ calls' = <<>>
     \/ /\ listeners' = listeners
        /\ failures' = failures + 1
        /\ calls' = << <<"console.error">> >>
  /\ input' = <<>>
  /\ UNCHANGED <<kvVars, trainerVars, kbMounted, activeNotes, anQueue, isListening,
                 listeningQueued, listenPc, opened, subscribed, mounts, connections,
                 kbTarget, lastCmd, delivered>>

\* No Keyboard is mounted.
KbUnmounted ==
  [kbMounted |-> FALSE, activeNotes |-> NoNotes, anQueue |-> <<>>,
   isListening |-> FALSE, listeningQueued |-> FALSE, listenPc |-> "none",
   opened |-> 0, subscribed |-> 0, mounts |-> 0, connections |-> 0,
   listeners |-> 0, stalePending |-> 0, kbTarget |-> InitialTarget,
   lastCmd |-> [n \in Notes |-> 0], delivered |-> <<>>, failures |-> 0]

KbInit ==
  /\ kbMounted = KbUnmounted.kbMounted
  /\ activeNotes = KbUnmounted.activeNotes
  /\ anQueue = KbUnmounted.anQueue
  /\ isListening = KbUnmounted.isListening
  /\ listeningQueued = KbUnmounted.listeningQueued
  /\ listenPc = KbUnmounted.listenPc
  /\ opened = KbUnmounted.opened
  /\ subscribed = KbUnmounted.subscribed
  /\ mounts = KbUnmounted.mounts
  /\ connections = KbUnmounted.connections
  /\ listeners = KbUnmounted.listeners
  /\ stalePending = KbUnmounted.stalePending
  /\ kbTarget = KbUnmounted.kbTarget
  /\ lastCmd = KbUnmounted.lastCmd
  /\ delivered = KbUnmounted.delivered
  /\ failures = KbUnmounted.failures

KbReset ==
  /\ kbMounted' = KbUnmounted.kbMounted
  /\ activeNotes' = KbUnmounted.activeNotes
  /\ anQueue' = KbUnmounted.anQueue
  /\ isListening' = KbUnmounted.isListening
  /\ listeningQueued' = KbUnmounted.listeningQueued
  /\ listenPc' = KbUnmounted.listenPc
  /\ opened' = KbUnmounted.opened
  /\ subscribed' = KbUnmounted.subscribed
  /\ mounts' = KbUnmounted.mounts
  /\ connections' = KbUnmounted.connections
  /\ listeners' = KbUnmounted.listeners
  /\ stalePending' = KbUnmounted.stalePending
  /\ kbTarget' = KbUnmounted.kbTarget
  /\ lastCmd' = KbUnmounted.lastCmd
  /\ delivered' = KbUnmounted.delivered
  /\ failures' = KbUnmounted.failures

Init ==
  /\ \E d \in [Keys -> Values \cup {Null}] :
       /\ \A k \in Keys : d[k] \in TypedValues(k) \cup {Null}
       /\ disk0 = Mounted(d).disk0
       /\ disk = Mounted(d).disk
       /\ cache = Mounted(d).cache
       /\ written = Mounted(d).written
       /\ calls = Mounted(d).calls
       /\ isLoading = Mounted(d).isLoading
       /\ pianoSound = Mounted(d).pianoSound
       /\ showKeyboard = Mounted(d).showKeyboard
       /\ muteSound = Mounted(d).muteSound
       /\ queue = Mounted(d).queue
       /\ loadPc = Mounted(d).loadPc
       /\ loadIdx = Mounted(d).loadIdx
       /\ loadResult = Mounted(d).loadResult
       /\ childrenRendered = Mounted(d).childrenRendered
  /\ prevWritten = EmptyStore
  /\ sessions = 1
  /\ ops = 0
  /\ directSaved = FALSE
  /\ input = <<>>
  /\ KbInit
  /\ nextTargetNote = InitialTarget
  /\ noteCounter = 0

\* The application is closed and started again: a new KVProvider mounts over the
\* store as it was last flushed.
NewSession ==
  /\ sessions < MaxSessions
  /\ sessions' = sessions + 1
  /\ prevWritten' = written
  /\ ops' = 0
  /\ directSaved' = FALSE
  /\ input' = <<>>
  /\ disk0' = Mounted(disk).disk0
  /\ disk' = Mounted(disk).disk
  /\ cache' = Mounted(disk).cache
  /\ written' = Mounted(disk).written
  /\ calls' = Mounted(disk).calls
  /\ isLoading' = Mounted(disk).isLoading
  /\ pianoSound' = Mounted(disk).pianoSound
  /\ showKeyboard' = Mounted(disk).showKeyboard
  /\ muteSound' = Mounted(disk).muteSound
  /\ queue' = Mounted(disk).queue
  /\ loadPc' = Mounted(disk).loadPc
  /\ loadIdx' = Mounted(disk).loadIdx
  /\ loadResult' = Mounted(disk).loadResult
  /\ childrenRendered' = Mounted(disk).childrenRendered
  /\ KbReset
  /\ nextTargetNote' = InitialTarget
  /\ noteCounter' = 0

Next ==
  \/ LoadResolve
  \/ LoadReject
  \/ GetResolve
  \/ GetReject
  \/ Render
  \/ SetPianoSound
  \/ SetShowKeyboard
  \/ SetMuteSound
  \/ DirectSave
  \/ NewSession
  \/ KeyboardMount
  \/ KeyboardUnmount

\* The application's sessions: KVProvider's load, renders and write-backs, its
\* descendants' calls, and the mounting of the Keyboard below it.
Spec == Init /\ [][Next]_vars

\* The store after a first session's load over an empty store has completed and the
\* render committing isLoading = false has run its write-back effects.
FirstLoadStore ==
  WriteBackEffects(FALSE, DefaultPianoSound, DefaultShowKeyboard, DefaultMuteSound,
                   TRUE, TRUE, TRUE, MountStore(EmptyStore))

\* KVProvider has loaded an empty store and rendered its children; no Keyboard is
\* mounted yet.
InitKeyboard ==
  /\ disk0 = EmptyStore
  /\ disk = FirstLoadStore.disk
  /\ cache = FirstLoadStore.cache
  /\ written = FirstLoadStore.written
  /\ calls = FirstLoadStore.log
  /\ isLoading = FALSE
  /\ pianoSound = DefaultPianoSound
  /\ showKeyboard = DefaultShowKeyboard
  /\ muteSound = DefaultMuteSound
  /\ queue = EmptyQueue
  /\ loadPc = "done"
  /\ loadIdx = Len(AVAILABLE_SETTINGS)
  /\ loadResult = "ok"
  /\ childrenRendered = RenderChildren(FALSE)
  /\ prevWritten = EmptyStore
  /\ sessions = 1
  /\ ops = 0
  /\ directSaved = FALSE
  /\ input = <<>>
  /\ KbInit
  /\ nextTargetNote = InitialTarget
  /\ noteCounter = 0

NextKeyboard ==
  \/ KeyboardMount
  \/ KeyboardRender
  \/ ListenResolve
  \/ ListenReject
  \/ MidiEvent
  \/ PianoPlay
  \/ PianoStop
  \/ TrainerSetTarget
  \/ KeyboardUnmount
  \/ StaleListenSettle

\* The Keyboard below a loaded KVProvider: its mounts, renders, MIDI traffic and the
\* Piano widget's calls of its handlers.
SpecKeyboard == InitKeyboard /\ [][NextKeyboard]_vars

NextLoad ==
  \/ LoadResolve
  \/ LoadReject
  \/ GetResolve
  \/ GetReject
  \/ Render
  \/ NewSession

\* KVProvider's load alone, no descendant acting: the promises of the load chain
\* settle and React runs the renders it scheduled.
FairSpecLoad ==
  /\ Init
  /\ [][NextLoad]_vars
  /\ WF_vars(LoadResolve \/ LoadReject)
  /\ WF_vars(GetResolve \/ GetReject)
  /\ WF_vars(Render)

(***************************************************************************)
(* Properties                                                              *)
(***************************************************************************)
\* The in-memory preference of a key, as the value store.set would be given.
PrefValue(k) ==
  CASE k = "piano-sound" -> StrV(pianoSound)
    [] k = "show-keyboard" -> BoolV(showKeyboard)
    [] k = "mute-sound" -> BoolV(muteSound)

DefaultValue(k) ==
  CASE k = "piano-sound" -> StrV(DefaultPianoSound)
    [] k = "show-keyboard" -> BoolV(DefaultShowKeyboard)
    [] k = "mute-sound" -> BoolV(DefaultMuteSound)

StoreWrites(log) == {i \in DOMAIN log : log[i][1] \in {"set", "save"}}

\* C1: while isLoading is true no step, neither a direct saveSetting call nor a
\* write-back effect, issues store.set or store.save: the persisted store is the one
\* the session started with and no value has been written in the session.
C1_NoWriteWhileLoading ==
  isLoading =>
    /\ StoreWrites(calls) = {}
    /\ disk = disk0
    /\ written = EmptyStore
    /\ cache \in {EmptyStore, disk0}

\* A direct saveSetting call was made while loading, after a write-back effect had
\* run for a loaded piano-sound, and the load is still in flight.
C1_Witness ==
  /\ isLoading
  /\ ops = 1
  /\ pianoSound = "marimba"
  /\ loadPc = "get"

\* C2 (as claimed): when a new session's load succeeds, the in-memory preference of
\* every key written in the previous session equals the value last written.
C2_WrittenValueReloaded ==
  [][(isLoading /\ ~isLoading' /\ loadResult = "ok") =>
       \A k \in Keys : prevWritten[k] # Null => PrefValue(k)' = prevWritten[k]]_vars

\* C3: children are rendered only when isLoading is false and the load chain has
\* settled; no Keyboard is mounted, no MIDI connection opened and no midi_message
\* subscription made before that.
C3_ChildrenGated ==
  /\ childrenRendered => (~isLoading /\ loadPc = "done")
  /\ (kbMounted \/ mounts > 0 \/ connections > 0 \/ subscribed > 0 \/ listeners > 0)
       => (~isLoading /\ loadPc = "done" /\ loadResult # "pending")

\* A Keyboard is mounted and has opened its connection after a failed load.
C3_Witness ==
  /\ kbMounted
  /\ connections = 1
  /\ subscribed = 1
  /\ loadResult = "load_failed"

\* C4: once the load chain has settled, by success, by a rejected store.load() or by
\* a rejected store.get, isLoading becomes false and the children are rendered
\* (unless the application is closed first); if
\* store.load() itself rejected, the preferences hold their defaults and no update of
\* them is queued until a descendant acts.
C4_LoadAlwaysCompletes ==
  /\ [](loadResult = "load_failed" /\ ops = 0 =>
          /\ pianoSound = DefaultPianoSound
          /\ showKeyboard = DefaultShowKeyboard
          /\ muteSound = DefaultMuteSound
          /\ queue \in {EmptyQueue, Finally(EmptyQueue)})
  /\ [](loadPc = "done" <=> loadResult \in {"ok", "load_failed", "get_failed"})
  /\ \A n \in 1..MaxSessions :
       (loadPc = "done" /\ sessions = n)
         ~> \/ sessions = n /\ ~isLoading /\ childrenRendered
            \/ sessions > n

\* store.load() rejected over a store that holds non-default values; the children
\* are rendered with the defaults.
C4_Witness ==
  /\ loadResult = "load_failed"
  /\ disk0["piano-sound"] = StrV("marimba")
  /\ disk0["show-keyboard"] = BoolV(FALSE)
  /\ ~isLoading
  /\ childrenRendered
  /\ pianoSound = DefaultPianoSound
  /\ ops = 0

\* C5 (as claimed): when the load succeeds, each preference equals the store's value
\* when the key is present and the default when it is absent.
C5_LoadedEqualsStore ==
  [][(isLoading /\ ~isLoading' /\ loadResult = "ok") =>
       \A k \in Keys : PrefValue(k)' = (IF cache[k] # Null THEN cache[k]
                                        ELSE DefaultValue(k))]_vars

\* The calls a change of key k's preference in this step must produce.
WritesFor(k) ==
  IF PrefValue(k)' # PrefValue(k)
  THEN << <<"set", k, PrefValue(k)'>>, <<"save">> >>
  ELSE <<>>

\* C6: after load, a render that changes preferences issues, for exactly the changed
\* keys, store.set(key, new value) followed by store.save(), and nothing else; the
\* persisted value of an unchanged key stays as it was.
C6_ChangeWritesThatKey ==
  [][(~isLoading /\ sessions' = sessions /\ \E k \in Keys : PrefValue(k)' # PrefValue(k)) =>
       /\ calls' = WritesFor("piano-sound") \o WritesFor("show-keyboard")
                     \o WritesFor("mute-sound")
       /\ \A k \in Keys : disk'[k] = (IF PrefValue(k)' # PrefValue(k)
                                      THEN PrefValue(k)' ELSE disk[k])]_vars

\* setShowKeyboard(false) after load has been rendered: one set of show-keyboard and
\* one save were issued.
C6_Witness ==
  /\ ~isLoading
  /\ ops = 1
  /\ queue = EmptyQueue
  /\ ~showKeyboard
  /\ calls = << <<"set", "show-keyboard", BoolV(FALSE)>>, <<"save">> >>
  /\ disk["show-keyboard"] = BoolV(FALSE)
  /\ disk["piano-sound"] = StrV("marimba")

\* The mapping once the queued updates are applied.
EffectiveNotes == ApplyUpdates(activeNotes, anQueue)

\* C7: for every note, the mapping (with the queued updates applied) holds true
\* exactly when the last 144/128 event delivered for the note was 144, false exactly
\* when it was 128, and has no entry when there was none.
C7_ActiveIffLastOn ==
  kbMounted =>
    \A n \in Notes :
      /\ lastCmd[n] = 0 <=> JsKey(n) \notin DOMAIN EffectiveNotes
      /\ lastCmd[n] = NoteOn <=>
           (JsKey(n) \in DOMAIN EffectiveNotes /\ EffectiveNotes[JsKey(n)])
      /\ lastCmd[n] = NoteOff <=>
           (JsKey(n) \in DOMAIN EffectiveNotes /\ ~EffectiveNotes[JsKey(n)])

\* A note-on and a note-off for 60 were delivered between two renders, after 61 had
\* been switched on.
C7_Witness ==
  /\ kbMounted
  /\ anQueue = << <<"60", TRUE>>, <<"60", FALSE>> >>
  /\ "61" \in DOMAIN activeNotes
  /\ activeNotes["61"]

\* A step in which the listener received a message.
MidiStep == Len(anQueue') > Len(anQueue) \/ (delivered' # delivered /\ delivered' # <<>>)

\* C8 (as claimed): a note-on event for the target note increments the counter.
C8_NoteOnIncrements ==
  [][(/\ Len(anQueue') = Len(anQueue) + 1
      /\ anQueue'[Len(anQueue')] = <<JsKey(nextTargetNote), TRUE>>)
       => noteCounter' = noteCounter + 1]_vars

\* C8 (amended): the listener never changes the counter; the counter changes only by
\* one, in a call of the play handler for the target note.
C8_OnlyPlayIncrements ==
  [][/\ MidiStep => noteCounter' = noteCounter
     /\ noteCounter' # noteCounter =>
          /\ noteCounter' = noteCounter + 1
          /\ calls' = << <<"setNoteCounter">>, <<"playNote", nextTargetNote>> >>]_vars

\* A note-on for the target note was delivered and rendered and the counter is still
\* zero.
C8_Witness ==
  /\ kbMounted
  /\ nextTargetNote = InitialTarget
  /\ "60" \in DOMAIN activeNotes
  /\ activeNotes["60"]
  /\ lastCmd[60] = NoteOn
  /\ noteCounter = 0

\* C9: a call of the play handler with note P increments the counter once when P is
\* the target note of the context at that time, and not at all otherwise.
C9_PlayComparesCurrentTarget ==
  [][\A P \in Notes :
       (calls' # <<>> /\ calls'[Len(calls')] = <<"playNote", P>>) =>
         /\ Increments(calls') = (IF P = nextTargetNote THEN 1 ELSE 0)
         /\ noteCounter' = noteCounter + (IF P = nextTargetNote THEN 1 ELSE 0)]_vars

\* After the target changed to 61, a play of 61 incremented the counter.
C9_Witness ==
  /\ nextTargetNote = 61
  /\ calls = << <<"setNoteCounter">>, <<"playNote", 61>> >>
  /\ noteCounter = 1

\* C10: within a mount, open_midi_connection is invoked at most once and listen is
\* called at most once, however often the Keyboard re-renders.
C10_OneConnectionPerMount ==
  /\ opened <= 1
  /\ subscribed <= 1
  /\ kbMounted => (opened = 1 /\ subscribed = 1)
  /\ connections = mounts

\* The setup effect has re-run with isListening = true and the Keyboard has
\* re-rendered for MIDI events.
C10_Witness ==
  /\ kbMounted
  /\ isListening
  /\ activeNotes # NoNotes
  /\ opened = 1
  /\ subscribed = 1
\* The entry of note n in a mapping: <<value>>, or <<>> when it has none.
Entry(an, n) == IF JsKey(n) \in DOMAIN an THEN <<an[JsKey(n)]>> ELSE <<>>

\* C11: the activeNotes prop is exactly the set of note numbers whose entry in the
\* mapping is true; notes mapped to false and notes without an entry are left out.
C11_ActivePropIsTrueEntries ==
  /\ ActiveNotesProp(activeNotes) = {n \in Notes : Entry(activeNotes, n) = <<TRUE>>}
  /\ \A n \in Notes :
       Entry(activeNotes, n) \in {<<>>, <<FALSE>>} => n \notin ActiveNotesProp(activeNotes)

\* 60 is mapped to true and 61 to false: the prop is {60}.
C11_Witness ==
  /\ kbMounted
  /\ Entry(activeNotes, 60) = <<TRUE>>
  /\ Entry(activeNotes, 61) = <<FALSE>>
  /\ ActiveNotesProp(activeNotes) = {60}

\* C12: a delivered message whose command is neither 144 nor 128 queues nothing,
\* leaves the mapping as it was and logs no error; a 144 or 128 message for note N
\* leaves the entry of every other note as it was.
C12_OtherCommandsIgnored ==
  [][(delivered' # <<>> /\ (delivered' # delivered \/ Len(anQueue') > Len(anQueue))) =>
       /\ calls' = <<>>
       /\ activeNotes' = activeNotes
       /\ IF delivered'[1] \in {NoteOn, NoteOff}
          THEN \A m \in Notes \ {delivered'[2]} :
                 Entry(EffectiveNotes, m)' = Entry(EffectiveNotes, m)
          ELSE /\ anQueue' = anQueue
               /\ EffectiveNotes' = EffectiveNotes]_vars

\* A message with command 176 was delivered after 61 had been switched on, and the
\* mapping still holds only 61.
C12_Witness ==
  /\ kbMounted
  /\ delivered = <<176, 60>>
  /\ anQueue = <<>>
  /\ Entry(activeNotes, 61) = <<TRUE>>
  /\ Entry(activeNotes, 60) = <<>>
\* C13: when the mount's subscription fails the failure is only logged; from then on,
\* within the mount, no connection is opened and no subscription made again
\* (setIsListening(true) has already been called), the mapping stays empty and the
\* Keyboard stays mounted.
C13_FailedSubscriptionIsInert ==
  /\ [](listenPc = "failed" =>
          /\ kbMounted
          /\ isListening \/ listeningQueued
          /\ opened = 1
          /\ subscribed = 1
          /\ activeNotes = NoNotes
          /\ anQueue = <<>>)
  /\ [][(failures' > failures /\ stalePending' = stalePending) =>
          /\ listenPc' = "failed"
          /\ calls' = << <<"console.error">> >>
          /\ opened' = opened
          /\ subscribed' = subscribed
          /\ connections' = connections]_vars
  /\ [][(listenPc = "failed" /\ kbMounted') =>
          /\ listenPc' = "failed"
          /\ opened' = opened
          /\ subscribed' = subscribed
          /\ connections' = connections]_vars

\* The subscription has failed, the Keyboard has re-rendered with isListening = true,
\* and the Piano has called the play handler since.
C13_Witness ==
  /\ listenPc = "failed"
  /\ isListening
  /\ ~listeningQueued
  /\ input = <<"play", 61>>
  /\ activeNotes = NoNotes
\* The positions in a call sequence of the calls of operation op.
CallsOf(log, op) == {i \in DOMAIN log : log[i][1] = op}

\* C14: a call of the play handler with note P calls the sound renderer's playNote
\* once, with P, whether or not P is the target, after the counter increment if there
\* is one; a call of the stop handler with P calls stopNote once, with P.
C14_PlayAndStopForwarded ==
  \A P \in Notes :
    /\ input = <<"play", P>> =>
         /\ \E i \in DOMAIN calls :
              /\ CallsOf(calls, "playNote") = {i}
              /\ calls[i] = <<"playNote", P>>
              /\ \A j \in CallsOf(calls, "setNoteCounter") : j < i
         /\ CallsOf(calls, "stopNote") = {}
    /\ input = <<"stop", P>> => calls = << <<"stopNote", P>> >>

\* The target note was played: the counter was incremented, then the play forwarded.
C14_Witness ==
  /\ input = <<"play", 61>>
  /\ nextTargetNote = 61
  /\ calls = << <<"setNoteCounter">>, <<"playNote", 61>> >>
\* C15 (as claimed): in a session whose load completed with every read succeeding and
\* in which no preference was changed and no value saved by a descendant, every key
\* present in the store when the session started keeps its persisted value.
C15_StoredValuesKept ==
  (loadResult = "ok" /\ ops = 0) =>
    \A k \in Keys : disk0[k] # Null => disk[k] = disk0[k]
\* The listen() calls still awaiting their result, of this mount and of earlier ones.
PendingSubscriptions == stalePending + (IF listenPc = "pending" THEN 1 ELSE 0)

\* C16 (as claimed): once every listen() call has settled, after k mounts k
\* connections have been opened and k listeners are registered.
C16_KMountsKListeners ==
  PendingSubscriptions = 0 => (connections = mounts /\ listeners = mounts)

\* C16 (amended): every mount opens one connection and makes one listen() call; each
\* call is pending, has failed or has registered a listener; no step, unmounting
\* included, removes a listener, and unmounting makes no call at all.
C16_SubscriptionNeverCancelled ==
  /\ [](connections = mounts /\ listeners + failures + PendingSubscriptions = mounts)
  /\ [][listeners' >= listeners]_vars
  /\ [][mounts' = mounts + 1 =>
          /\ Cardinality(CallsOf(calls', "invoke")) = 1
          /\ Cardinality(CallsOf(calls', "listen")) = 1
          /\ PendingSubscriptions' = PendingSubscriptions + 1]_vars
  /\ [][(kbMounted /\ ~kbMounted') =>
          /\ calls' = <<>>
          /\ listeners' = listeners
          /\ PendingSubscriptions' = PendingSubscriptions]_vars

\* Two mounts, each unmounted after its listener was registered: both listeners are
\* still registered and two connections have been opened.
C16_Witness ==
  /\ ~kbMounted
  /\ mounts = 2
  /\ connections = 2
  /\ listeners = 2
  /\ PendingSubscriptions = 0
\* C17: a direct call saveSetting(key, value) made when isLoading is false issues
\* store.set(key, value) and then store.save() and nothing else, changes the stored
\* value of that key only, and changes no in-memory preference nor queues an update.
C17_DirectSaveWritesOnlyKey ==
  [][\A k \in Keys : \A v \in TypedValues(k) :
       (input' = <<"saveSetting", k, v>> /\ ~isLoading) =>
         /\ calls' = << <<"set", k, v>>, <<"save">> >>
         /\ cache' = [cache EXCEPT ![k] = v]
         /\ disk' = [disk EXCEPT ![k] = v]
         /\ \A j \in Keys : PrefValue(j)' = PrefValue(j)
         /\ queue' = queue
         /\ isLoading' = isLoading]_vars

\* saveSetting('show-keyboard', false) was called after the load: the store holds
\* false, the in-memory preference is still true.
C17_Witness ==
  /\ input = <<"saveSetting", "show-keyboard", BoolV(FALSE)>>
  /\ ~isLoading
  /\ showKeyboard
  /\ calls = << <<"set", "show-keyboard", BoolV(FALSE)>>, <<"save">> >>
  /\ disk["show-keyboard"] = BoolV(FALSE)
  /\ disk["mute-sound"] = BoolV(DefaultMuteSound)
\* The calls that write key k with its in-memory preference after this step.
WriteBackOf(k) == << <<"set", k, PrefValue(k)'>>, <<"save">> >>

\* C18: the render in which isLoading turns false writes all three keys with their
\* in-memory values, in the order of the effects; and whenever the load is over, no
\* update is pending and no descendant has called saveSetting itself, the store holds
\* for each key the in-memory preference.
C18_StoreFollowsPreferences ==
  /\ [][(isLoading /\ ~isLoading') =>
          /\ calls' = WriteBackOf("piano-sound") \o WriteBackOf("show-keyboard")
                        \o WriteBackOf("mute-sound")
          /\ \A k \in Keys : disk'[k] = PrefValue(k)']_vars
  /\ []((~isLoading /\ queue = EmptyQueue /\ ~directSaved) =>
          \A k \in Keys : disk[k] = PrefValue(k) /\ cache[k] = PrefValue(k))

\* A session over an empty store whose load succeeded: nothing was changed, and the
\* render that committed isLoading = false has written the three defaults.
C18_Witness ==
  /\ ~isLoading
  /\ ops = 0
  /\ loadResult = "ok"
  /\ disk0 = EmptyStore
  /\ calls = << <<"set", "piano-sound", StrV(DefaultPianoSound)>>, <<"save">>,
                <<"set", "show-keyboard", BoolV(DefaultShowKeyboard)>>, <<"save">>,
                <<"set", "mute-sound", BoolV(DefaultMuteSound)>>, <<"save">> >>
  /\ \A k \in Keys : disk[k] = DefaultValue(k)
====
